---- MODULE Spec2Model ----
(***************************************************************************)
(* A model of basic-http-server's request pipeline (src/main.rs):          *)
(* local_path_for_request, serve, respond_with_file, read_file,            *)
(* file_path_mime, handle_io_error, error_response and the service closure *)
(* of run.  Strings and paths are sequences of one-character strings, so   *)
(* that prefix tests, '?' trimming, PathBuf::push and Path::extension are  *)
(* computed character by character as the code computes them.              *)
(***************************************************************************)
EXTENDS Naturals, Sequences, FiniteSets

VARIABLES
    root_dir,        \* Config.root_dir, cloned into every request
    use_extensions,  \* Config.use_extensions
    inputs,          \* the request paths the clients of this run send
    active,          \* the request slots (connections) this run uses
    rq,              \* rq[r]: the state of the request future in slot r
    handles,         \* handles[fd]: the open file description behind fd
    reqPath,         \* path resolver run: the request path under test
    resolved         \* path resolver run: what local_path_for_request gave

vars == <<root_dir, use_extensions, inputs, active, rq, handles, reqPath, resolved>>

None == <<"none">>

----------------------------------------------------------------------------
(* Bounds *)

\* request slots that may be in flight at once
NumReqs == 2
\* longest request path the path resolver run enumerates
MaxLen == 4
\* bytes one read() call returns at most
ChunkSize == 1

----------------------------------------------------------------------------
(* str and std::path, as the code uses them *)

\* str::starts_with(char)
starts_with(s, c) == Len(s) > 0 /\ s[1] = c

\* str::ends_with(char)
ends_with(s, c) == Len(s) > 0 /\ s[Len(s)] = c

\* str::find(char): index of the first occurrence, 0 when there is none
find(s, c) ==
    IF \E i \in 1..Len(s) : s[i] = c
    THEN CHOOSE i \in 1..Len(s) : s[i] = c /\ \A j \in 1..(i-1) : s[j] # c
    ELSE 0

\* &s[a..b) with 1-based a and exclusive end b+1, i.e. characters a..b
slice(s, a, b) == IF a > b THEN <<>> ELSE SubSeq(s, a, b)

\* Path::is_absolute on Unix
is_absolute(p) == starts_with(p, "/")

\* PathBuf::push on Unix: an absolute argument replaces the buffer,
\* otherwise a separator is added unless the buffer is empty or ends in one
push(buf, p) ==
    IF is_absolute(p) THEN p
    ELSE IF Len(buf) > 0 /\ buf[Len(buf)] # "/" THEN buf \o <<"/">> \o p
    ELSE buf \o p

RECURSIVE SplitFrom(_, _, _)
SplitFrom(s, i, cur) ==
    IF i > Len(s) THEN <<cur>>
    ELSE IF s[i] = "/" THEN <<cur>> \o SplitFrom(s, i + 1, <<>>)
    ELSE SplitFrom(s, i + 1, Append(cur, s[i]))

\* the text between separators, empty pieces included
Split(s) == SplitFrom(s, 1, <<>>)

IsNormalOrParent(seg) == seg # <<>> /\ seg # <<".">>

\* Path::components on Unix: the root, a leading ".", and every piece that
\* is neither empty nor "." (".." is kept)
Components(p) ==
    LET pieces == Split(p)
        abs == is_absolute(p)
        lead == IF ~abs /\ pieces[1] = <<".">> THEN << <<".">> >> ELSE <<>>
    IN [abs |-> abs, segs |-> lead \o SelectSeq(pieces, IsNormalOrParent)]

\* Path::file_name: the last component when it is a normal one
file_name(p) ==
    LET segs == SelectSeq(Split(p), IsNormalOrParent)
    IN IF segs = <<>> \/ segs[Len(segs)] = <<".", ".">> THEN None
       ELSE segs[Len(segs)]

\* index of the last occurrence of c in s, 0 when there is none
rfind(s, c) ==
    IF \E i \in 1..Len(s) : s[i] = c
    THEN CHOOSE i \in 1..Len(s) : s[i] = c /\ \A j \in (i+1)..Len(s) : s[j] # c
    ELSE 0

\* Path::extension: the part of file_name after its last ".", none when the
\* name has no "." or only a leading one
extension(p) ==
    LET name == file_name(p)
        dot == IF name = None THEN 0 ELSE rfind(name, ".")
    IN IF name = None \/ dot <= 1 THEN None
       ELSE slice(name, dot + 1, Len(name))

----------------------------------------------------------------------------
(* local_path_for_request *)

IndexHtml == <<"i", "n", "d", "e", "x", ".", "h", "t", "m", "l">>

\* the request path up to its first '?'
trim_query(request_path) ==
    LET q == find(request_path, "?")
        end == IF q = 0 THEN Len(request_path) ELSE q - 1
    IN slice(request_path, 1, end)

local_path_for_request_unchecked(request_path, root) ==
    LET trimmed == trim_query(request_path)
        joined == push(root, slice(trimmed, 2, Len(trimmed)))
    IN IF ends_with(trimmed, "/") THEN push(joined, IndexHtml) ELSE joined

local_path_for_request(request_path, root) ==
    IF ~starts_with(request_path, "/") THEN None
    ELSE
        LET trimmed == trim_query(request_path)
            joined == push(root, slice(trimmed, 2, Len(trimmed)))
        IN IF ~starts_with(trimmed, "/") THEN None
           ELSE IF ends_with(trimmed, "/") THEN push(joined, IndexHtml)
           ELSE joined

----------------------------------------------------------------------------
(* The filesystem the server runs on.  A location is the sequence of names *)
(* from "/" down; the contents do not change while the server runs.        *)

Name(base, ext) == base \o <<".">> \o ext

RootLoc == << <<"r">> >>
Under(name) == Append(RootLoc, name)

File(loc, data) == [loc |-> loc, kind |-> "file", readable |-> TRUE, data |-> data]
Dir(loc) == [loc |-> loc, kind |-> "dir", readable |-> TRUE, data |-> <<>>]

Files ==
    { Dir(<<>>),
      File(<< <<"s">> >>, <<"k", "e", "y">>),               \* /s, outside the root
      Dir(RootLoc),                                          \* /r
      File(Under(IndexHtml), <<"h", "i">>),                  \* /r/index.html
      Dir(Under(<<"d">>)),                                   \* /r/d, no index.html
      File(Under(<<"x", " ", "y">>), <<"w">>),               \* /r/x y
      [File(Under(<<"p">>), <<"n">>) EXCEPT !.readable = FALSE],  \* /r/p, mode 000
      File(Under(<<"a">>), <<"0">>),
      File(Under(Name(<<"a">>, <<"c", "s", "s">>)), <<"1">>),
      File(Under(Name(<<"a">>, <<"j", "s">>)), <<"2">>),
      File(Under(Name(<<"a">>, <<"j", "p", "g">>)), <<"3">>),
      File(Under(Name(<<"a">>, <<"m", "d">>)), <<"4">>),
      File(Under(Name(<<"a">>, <<"p", "n", "g">>)), <<"5">>),
      File(Under(Name(<<"a">>, <<"s", "v", "g">>)), <<"6">>),
      File(Under(Name(<<"a">>, <<"w", "a", "s", "m">>)), <<"7">>),
      File(Under(Name(<<"a">>, <<"H", "T", "M", "L">>)), <<"8">>),
      File(Under(Name(<<"a">>, <<"t", "x", "t">>)), <<"9">>),
      File(Under(<<".", "j", "s">>), <<"j">>) }

Missing == [loc |-> <<>>, kind |-> "missing", readable |-> FALSE, data |-> <<>>]

Lookup(loc) ==
    IF \E e \in Files : e.loc = loc
    THEN CHOOSE e \in Files : e.loc = loc
    ELSE Missing

\* io::ErrorKind values an open or a read can fail with
IoErrorKinds == {"NotFound", "PermissionDenied", "Other"}

\* path_resolution(7): every piece is looked up in the directory reached so
\* far, "." stays, ".." goes to the parent (the parent of "/" is "/")
RECURSIVE WalkFrom(_, _, _)
WalkFrom(pieces, i, loc) ==
    IF i > Len(pieces) THEN [err |-> "none", loc |-> loc]
    ELSE IF pieces[i] = <<>> THEN WalkFrom(pieces, i + 1, loc)
    ELSE IF Lookup(loc).kind = "missing" THEN [err |-> "NotFound", loc |-> loc]
    ELSE IF Lookup(loc).kind # "dir" THEN [err |-> "Other", loc |-> loc]
    ELSE IF pieces[i] = <<".">> THEN WalkFrom(pieces, i + 1, loc)
    ELSE IF pieces[i] = <<".", ".">>
         THEN WalkFrom(pieces, i + 1, slice(loc, 1, Len(loc) - 1))
    ELSE WalkFrom(pieces, i + 1, Append(loc, pieces[i]))

\* open(2) for reading, started from "/" (the paths served are absolute):
\* ENOENT is NotFound, EACCES PermissionDenied, ENOTDIR Other; a directory
\* opens, and fails only when read
fs_open(path) ==
    LET w == WalkFrom(Split(path), 1, <<>>)
        e == Lookup(w.loc)
    IN IF w.err # "none" THEN w
       ELSE IF e.kind = "missing" THEN [err |-> "NotFound", loc |-> w.loc]
       ELSE IF e.kind = "file" /\ ends_with(path, "/") THEN [err |-> "Other", loc |-> w.loc]
       ELSE IF ~e.readable THEN [err |-> "PermissionDenied", loc |-> w.loc]
       ELSE [err |-> "none", loc |-> w.loc]

----------------------------------------------------------------------------
(* file_path_mime *)

Mime(essence, charset) == [essence |-> essence, charset |-> charset]
NoMime == Mime("none", "none")

TEXT_HTML == Mime("text/html", "none")
TEXT_CSS == Mime("text/css", "none")
TEXT_JAVASCRIPT == Mime("text/javascript", "none")
IMAGE_JPEG == Mime("image/jpeg", "none")
TEXT_MARKDOWN_UTF8 == Mime("text/markdown", "utf-8")
IMAGE_PNG == Mime("image/png", "none")
IMAGE_SVG == Mime("image/svg+xml", "none")
APPLICATION_WASM == Mime("application/wasm", "none")
TEXT_PLAIN == Mime("text/plain", "none")

file_path_mime_fold(file_path) ==
    LET ext == extension(file_path)
    IN IF ext = <<"h", "t", "m", "l">> \/ ext = <<"H", "T", "M", "L">> THEN TEXT_HTML
       ELSE IF ext = <<"c", "s", "s">> THEN TEXT_CSS
       ELSE IF ext = <<"j", "s">> THEN TEXT_JAVASCRIPT
       ELSE IF ext = <<"j", "p", "g">> THEN IMAGE_JPEG
       ELSE IF ext = <<"m", "d">> THEN TEXT_MARKDOWN_UTF8
       ELSE IF ext = <<"p", "n", "g">> THEN IMAGE_PNG
       ELSE IF ext = <<"s", "v", "g">> THEN IMAGE_SVG
       ELSE IF ext = <<"w", "a", "s", "m">> THEN APPLICATION_WASM
       ELSE TEXT_PLAIN

file_path_mime(file_path) ==
    LET ext == extension(file_path)
    IN IF ext = <<"h", "t", "m", "l">> THEN TEXT_HTML
       ELSE IF ext = <<"c", "s", "s">> THEN TEXT_CSS
       ELSE IF ext = <<"j", "s">> THEN TEXT_JAVASCRIPT
       ELSE IF ext = <<"j", "p", "g">> THEN IMAGE_JPEG
       ELSE IF ext = <<"m", "d">> THEN TEXT_MARKDOWN_UTF8
       ELSE IF ext = <<"p", "n", "g">> THEN IMAGE_PNG
       ELSE IF ext = <<"s", "v", "g">> THEN IMAGE_SVG
       ELSE IF ext = <<"w", "a", "s", "m">> THEN APPLICATION_WASM
       ELSE TEXT_PLAIN

----------------------------------------------------------------------------
(* Responses and the results of the futures *)

Response(status, content_type, body) ==
    [status |-> status, content_length |-> Len(body),
     content_type |-> content_type, body |-> body]

NoResp == [status |-> 0, content_length |-> 0, content_type |-> NoMime, body |-> <<>>]

\* Result<Response<Body>, Error>
Ok(resp) == [ok |-> TRUE, resp |-> resp, error |-> "none"]
Err(error) == [ok |-> FALSE, resp |-> NoResp, error |-> error]

OK == 200
NOT_FOUND == 404
INTERNAL_SERVER_ERROR == 500

\* format!("{}", status): the code and its canonical reason
StatusText(status) ==
    IF status = NOT_FOUND
    THEN <<"4", "0", "4", " ", "N", "o", "t", " ", "F", "o", "u", "n", "d">>
    ELSE IF status = INTERNAL_SERVER_ERROR
    THEN <<"5", "0", "0", " ", "I", "n", "t", "e", "r", "n", "a", "l", " ",
           "S", "e", "r", "v", "e", "r", " ", "E", "r", "r", "o", "r">>
    ELSE <<"2", "0", "0", " ", "O", "K">>

\* template.html: fixed text around the two substitution points
Text(t) == [hole |-> "none", text |-> t]
Hole(h) == [hole |-> h, text |-> <<>>]
HTML_TEMPLATE ==
    << Text(<<"<", "h", "1", ">">>), Hole("title"),
       Text(<<"<", "/", "h", "1", ">">>), Hole("body") >>

RECURSIVE RenderFrom(_, _, _)
RenderFrom(template, i, cfg) ==
    IF i > Len(template) THEN <<>>
    ELSE (IF template[i].hole = "title" THEN cfg.title
          ELSE IF template[i].hole = "body" THEN cfg.body
          ELSE template[i].text) \o RenderFrom(template, i + 1, cfg)

render_html(cfg) == RenderFrom(HTML_TEMPLATE, 1, cfg)

render_error_html(status) == render_html([title |-> StatusText(status), body |-> <<>>])

\* the rendered page with the status and its length, no Content-Type
error_response(status) == Ok(Response(status, NoMime, render_error_html(status)))

internal_server_error == error_response(INTERNAL_SERVER_ERROR)

handle_io_error_always_404(kind) == error_response(NOT_FOUND)

handle_io_error(kind) ==
    IF kind = "NotFound" THEN error_response(NOT_FOUND)
    ELSE internal_server_error

\* the closure of respond_with_file, run on the bytes read_file gave
respond_with_file(buf, path) == Ok(Response(OK, file_path_mime(path), buf))

----------------------------------------------------------------------------
(* The post-processing hook, ext::map: with the extensions off the response *)
(* passes through; with them on the hook may pass it through, replace it    *)
(* or fail.                                                                 *)

Rewritten == Response(OK, TEXT_HTML, <<"d", "e", "v">>)

ext_map(req, resp, root, use_ext) ==
    IF use_ext THEN {Ok(resp), Ok(Rewritten), Err("Ext")} ELSE {Ok(resp)}

----------------------------------------------------------------------------
(* The request futures *)

Reqs == 1..NumReqs
Fds == 1..NumReqs

NoHandle == [open |-> FALSE, loc |-> <<>>, pos |-> 0]

IdleReq ==
    [pc |-> "idle", req |-> None, path |-> None, fd |-> 0, buf |-> <<>>,
     openErr |-> "none", readErr |-> "none", resp |-> NoResp, final |-> NoResp,
     hooks |-> 0, opens |-> 0]

InFlight == {"opening", "reading", "hook"}
Finished == {"done", "failed", "cancelled"}

\* the service closure of run: serve(..).and_then(|resp| ext::map(..)).
\* The hook is called when, and only when, serve's future yields Ok(resp);
\* an Err is the result of the whole request.
and_then_ext_map(q, result) ==
    IF result.ok
    THEN [q EXCEPT !.pc = "hook", !.resp = result.resp, !.hooks = @ + 1]
    ELSE [q EXCEPT !.pc = "failed"]

\* serve, up to the future it returns
serve(request_path, root) ==
    LET path == local_path_for_request(request_path, root)
        q == [IdleReq EXCEPT !.req = request_path]
    IN IF path # None
       THEN [q EXCEPT !.pc = "opening", !.path = path]
       ELSE and_then_ext_map(q, internal_server_error)

\* a File dropped: its descriptor is closed
drop_file_leak(hs, fd) == hs

drop_file(hs, fd) ==
    IF fd \in DOMAIN hs THEN [hs EXCEPT ![fd] = NoHandle] ELSE hs

\* File::open hands out a descriptor of its own: the lowest one not in use
new_fd_shared(hs, loc) ==
    IF \E fd \in DOMAIN hs : hs[fd].open /\ hs[fd].loc = loc
    THEN CHOOSE fd \in DOMAIN hs : hs[fd].open /\ hs[fd].loc = loc
    ELSE CHOOSE fd \in DOMAIN hs : ~hs[fd].open /\ \A g \in DOMAIN hs : g < fd => hs[g].open

new_fd(hs, loc) ==
    CHOOSE fd \in DOMAIN hs : ~hs[fd].open /\ \A g \in DOMAIN hs : g < fd => hs[g].open

\* a request arrives on connection r
Start(r, p) ==
    /\ r \in active
    /\ rq[r].pc = "idle"
    /\ rq' = [rq EXCEPT ![r] = serve(p, root_dir)]
    /\ UNCHANGED <<root_dir, use_extensions, inputs, active, handles, reqPath, resolved>>

\* File::open(path) completes and the closure given to then() runs
Open(r) ==
    /\ rq[r].pc = "opening"
    /\ LET res == fs_open(rq[r].path)
           q == [rq[r] EXCEPT !.opens = @ + 1]
       IN IF res.err = "none"
          THEN LET fd == new_fd(handles, res.loc)
               IN /\ handles' = [handles EXCEPT ![fd] = [open |-> TRUE, loc |-> res.loc, pos |-> 0]]
                  /\ rq' = [rq EXCEPT ![r] = [q EXCEPT !.pc = "reading", !.fd = fd]]
          ELSE /\ rq' = [rq EXCEPT ![r] =
                          and_then_ext_map([q EXCEPT !.openErr = res.err], handle_io_error(res.err))]
               /\ UNCHANGED handles
    /\ UNCHANGED <<root_dir, use_extensions, inputs, active, reqPath, resolved>>

Min(a, b) == IF a < b THEN a ELSE b

\* read_to_end: one read() that returns bytes
ReadChunk(r) ==
    /\ rq[r].pc = "reading"
    /\ LET h == handles[rq[r].fd]
           e == Lookup(h.loc)
           n == Min(ChunkSize, Len(e.data) - h.pos)
       IN /\ h.open /\ e.kind = "file" /\ h.pos < Len(e.data)
          /\ rq' = [rq EXCEPT ![r].buf = @ \o SubSeq(e.data, h.pos + 1, h.pos + n)]
          /\ handles' = [handles EXCEPT ![rq[r].fd].pos = @ + n]
    /\ UNCHANGED <<root_dir, use_extensions, inputs, active, reqPath, resolved>>

\* read_to_end: read() returns 0; the file is dropped, the response built
ReadEof(r) ==
    /\ rq[r].pc = "reading"
    /\ LET h == handles[rq[r].fd]
           e == Lookup(h.loc)
       IN /\ h.open /\ e.kind = "file" /\ h.pos >= Len(e.data)
          /\ handles' = drop_file(handles, rq[r].fd)
          /\ rq' = [rq EXCEPT ![r] =
                     and_then_ext_map([rq[r] EXCEPT !.fd = 0],
                                      respond_with_file(rq[r].buf, rq[r].path))]
    /\ UNCHANGED <<root_dir, use_extensions, inputs, active, reqPath, resolved>>

\* read_to_end: read() fails (EISDIR on a directory, EBADF on a closed
\* descriptor); map_err(Error::Io) and the and_thens pass the Err on
ReadFail(r) ==
    /\ rq[r].pc = "reading"
    /\ LET h == handles[rq[r].fd]
           e == Lookup(h.loc)
       IN /\ ~h.open \/ e.kind # "file"
          /\ handles' = drop_file(handles, rq[r].fd)
          /\ rq' = [rq EXCEPT ![r] =
                     and_then_ext_map([rq[r] EXCEPT !.fd = 0, !.readErr = "Other"], Err("Io"))]
    /\ UNCHANGED <<root_dir, use_extensions, inputs, active, reqPath, resolved>>

\* the future ext::map returned completes: the result of the request
HookDone(r) ==
    /\ rq[r].pc = "hook"
    /\ \E res \in ext_map(rq[r].req, rq[r].resp, root_dir, use_extensions) :
          rq' = [rq EXCEPT ![r] =
                  IF res.ok THEN [rq[r] EXCEPT !.pc = "done", !.final = res.resp]
                  ELSE [rq[r] EXCEPT !.pc = "failed"]]
    /\ UNCHANGED <<root_dir, use_extensions, inputs, active, handles, reqPath, resolved>>

\* the connection goes away: hyper drops the request's future and all it owns
Cancel(r) ==
    /\ rq[r].pc \in InFlight
    /\ handles' = drop_file(handles, rq[r].fd)
    /\ rq' = [rq EXCEPT ![r] = [rq[r] EXCEPT !.pc = "cancelled", !.fd = 0]]
    /\ UNCHANGED <<root_dir, use_extensions, inputs, active, reqPath, resolved>>

\* the connection takes its next request
Recycle(r) ==
    /\ rq[r].pc \in Finished
    /\ rq' = [rq EXCEPT ![r] = IdleReq]
    /\ UNCHANGED <<root_dir, use_extensions, inputs, active, handles, reqPath, resolved>>

----------------------------------------------------------------------------
(* The requests the clients send *)

Css == Name(<<"/", "a">>, <<"c", "s", "s">>)

\* the concurrent run: one path for every way through serve
ReqPaths ==
    { <<"/">>,                                   \* /r/index.html
      Css,                                       \* a file
      <<"/", "d">>,                              \* a directory: opens, cannot be read
      <<"/", "d", "/">>,                         \* /r/d/index.html does not exist
      <<"/", "p">>,                              \* no permission
      Css \o <<"/", "z">>,                       \* a file used as a directory
      <<"*">>,                                   \* OPTIONS *
      <<>>,                                      \* CONNECT host:port
      <<"/", "x", "%", "2", "0", "y">>,          \* "x y", percent-encoded
      <<"/", ".", ".", "/", "s">>,               \* /r/../s
      <<"/", "/", "s">> }                        \* an absolute remainder

\* the sequential run: one path for every arm of file_path_mime
MimePaths ==
    { <<"/">>,
      Css \o <<"?", "x", ".", "j", "s">>,
      Name(<<"/", "a">>, <<"j", "s">>),
      Name(<<"/", "a">>, <<"j", "p", "g">>),
      Name(<<"/", "a">>, <<"m", "d">>),
      Name(<<"/", "a">>, <<"p", "n", "g">>),
      Name(<<"/", "a">>, <<"s", "v", "g">>),
      Name(<<"/", "a">>, <<"w", "a", "s", "m">>),
      Name(<<"/", "a">>, <<"H", "T", "M", "L">>),
      Name(<<"/", "a">>, <<"t", "x", "t">>),
      <<"/", "a">>,
      <<"/", ".", "j", "s">>,
      <<"/", "d">>,
      <<"/", "d", "/">> }

\* the path resolver run: every string over these characters, up to MaxLen
Alphabet == {"/", "?", ".", "a"}

RECURSIVE Strings(_)
Strings(n) ==
    IF n = 0 THEN {<<>>}
    ELSE LET shorter == Strings(n - 1)
         IN shorter \cup {Append(s, c) : s \in shorter, c \in Alphabet}

RootDirs == { <<".">>, <<"r">>, <<"/", "r">>, <<"r", "/">> }

Pending == <<"pending">>

----------------------------------------------------------------------------
(* Specifications *)

InitServer ==
    /\ root_dir = <<"/", "r">>
    /\ use_extensions \in BOOLEAN
    /\ rq = [r \in Reqs |-> IdleReq]
    /\ handles = [fd \in Fds |-> NoHandle]
    /\ reqPath = None
    /\ resolved = None

\* the server under concurrent requests
Init ==
    /\ InitServer
    /\ inputs = ReqPaths
    /\ active = Reqs

\* the server answering one request after the other
InitMime ==
    /\ InitServer
    /\ inputs = MimePaths
    /\ active = {1}

Next ==
    \E r \in Reqs :
        \/ \E p \in inputs : Start(r, p)
        \/ Open(r)
        \/ ReadChunk(r)
        \/ ReadEof(r)
        \/ ReadFail(r)
        \/ HookDone(r)
        \/ Cancel(r)
        \/ Recycle(r)

Spec == Init /\ [][Next]_vars

SpecMime == InitMime /\ [][Next]_vars

\* local_path_for_request applied to one request path
Resolve ==
    /\ resolved = Pending
    /\ resolved' = local_path_for_request(reqPath, root_dir)
    /\ UNCHANGED <<root_dir, use_extensions, inputs, active, rq, handles, reqPath>>

InitPath ==
    /\ root_dir \in RootDirs
    /\ use_extensions = FALSE
    /\ inputs = {}
    /\ active = {}
    /\ rq = [r \in Reqs |-> IdleReq]
    /\ handles = [fd \in Fds |-> NoHandle]
    /\ reqPath \in Strings(MaxLen)
    /\ resolved = Pending

NextPath == Resolve

SpecPath == InitPath /\ [][NextPath]_vars

----------------------------------------------------------------------------
(* Properties *)

IsPrefix(a, b) == Len(a) <= Len(b) /\ SubSeq(b, 1, Len(a)) = a

Contains(s, t) == \E i \in 0..(Len(s) - Len(t)) : SubSeq(s, i + 1, i + Len(t)) = t

\* the normal and ".." pieces of a relative path, in order
Segments(p) == SelectSeq(Split(p), IsNormalOrParent)

\* serve's future has resolved for this request
Answered(q) == q.pc \in {"hook", "done", "failed"}

\* C1: for every request path that starts with "/", the resolved path is
\* root_dir followed by the segments of the query-stripped path after its
\* leading "/", followed by index.html exactly when the query-stripped path
\* ends with "/" (paths compared component by component, as Path does).
C1_ResolvedIsRootJoinedWithSegments ==
    (resolved # Pending /\ starts_with(reqPath, "/")) =>
        LET trimmed == trim_query(reqPath)
            rest == slice(trimmed, 2, Len(trimmed))
            index == IF ends_with(trimmed, "/") THEN <<IndexHtml>> ELSE <<>>
        IN /\ resolved # None
           /\ Components(resolved) =
                [abs |-> Components(root_dir).abs,
                 segs |-> Components(root_dir).segs \o Segments(rest) \o index]

\* C2: the resolved path keeps root_dir as its prefix, and the file serve
\* opens for it lies under the root directory, whatever the request path.
C2_ResolvedStaysUnderRoot ==
    \A r \in Reqs :
        rq[r].path # None =>
            /\ IsPrefix(root_dir, rq[r].path)
            /\ rq[r].fd # 0 => IsPrefix(RootLoc, handles[rq[r].fd].loc)

EncodeChar(c) ==
    IF c = " " THEN <<"%", "2", "0">>
    ELSE IF c = "%" THEN <<"%", "2", "5">>
    ELSE IF c = "?" THEN <<"%", "3", "F">>
    ELSE <<c>>

RECURSIVE PercentEncode(_)
PercentEncode(s) ==
    IF s = <<>> THEN <<>> ELSE EncodeChar(Head(s)) \o PercentEncode(Tail(s))

\* the request path of a file right under the root, URL-encoded
UrlOf(e) == <<"/">> \o PercentEncode(e.loc[Len(e.loc)])

ServedFiles ==
    {e \in Files : e.kind = "file" /\ e.readable /\ Len(e.loc) = 2 /\ IsPrefix(RootLoc, e.loc)}

\* C3: a request for the URL-encoded relative path of a readable file under
\* the root is answered with 200, the file's bytes and their count.
C3_RoundTrip ==
    \A r \in Reqs : \A e \in ServedFiles :
        (Answered(rq[r]) /\ rq[r].req = UrlOf(e)) =>
            /\ rq[r].resp.status = OK
            /\ rq[r].resp.body = e.data
            /\ rq[r].resp.content_length = Len(e.data)

\* C4: when the open fails, the response is the error page with status 404
\* for NotFound (its body contains "404") and 500 for every other kind.
C4_OpenFailureStatus ==
    \A r \in Reqs :
        rq[r].openErr # "none" =>
            LET resp == rq[r].resp
            IN /\ resp.status = (IF rq[r].openErr = "NotFound" THEN 404 ELSE 500)
               /\ resp.body = render_error_html(resp.status)
               /\ resp.content_length = Len(resp.body)
               /\ rq[r].openErr = "NotFound" => Contains(resp.body, <<"4", "0", "4">>)

C4_Witness ==
    \E r1, r2 \in Reqs :
        /\ rq[r1].openErr = "NotFound" /\ rq[r1].pc = "done"
        /\ rq[r1].final.status = 404
        /\ rq[r2].openErr = "PermissionDenied" /\ rq[r2].pc = "done"
        /\ rq[r2].final.status = 500

\* C5: a request whose path does not start with "/" resolves to no path
\* and gets the 500 error page; no file is ever opened or read for it.
C5_NoPathIs500WithoutIo ==
    \A r \in Reqs :
        (rq[r].pc # "idle" /\ ~starts_with(rq[r].req, "/")) =>
            /\ rq[r].path = None
            /\ rq[r].opens = 0 /\ rq[r].fd = 0 /\ rq[r].buf = <<>>
            /\ rq[r].pc \notin {"opening", "reading"}
            /\ rq[r].resp.status = 500
            /\ rq[r].resp.body = render_error_html(500)

C5_Witness ==
    \E r \in Reqs :
        /\ rq[r].req = <<"*">> /\ rq[r].pc = "done"
        /\ rq[r].final.status = 500 /\ rq[r].opens = 0

\* C6: a read that fails after a successful open ends in a response with
\* status 500; the request's future does not fail.
C6_ReadFailureRecovered ==
    \A r \in Reqs :
        rq[r].readErr # "none" =>
            /\ rq[r].pc # "failed"
            /\ rq[r].resp.status = 500

\* C7: every request that has ended, on whatever path, had the hook called
\* exactly once, on the response the core built; a request that is done
\* carries the hook's result.
C7_HookCalledOncePerRequest ==
    \A r \in Reqs :
        /\ rq[r].hooks <= 1
        /\ rq[r].hooks = 1 => rq[r].resp # NoResp
        /\ rq[r].pc \in {"done", "failed"} => rq[r].hooks = 1
        /\ rq[r].pc = "done" =>
              Ok(rq[r].final) \in ext_map(rq[r].req, rq[r].resp, root_dir, use_extensions)

\* C8: an open file belongs to exactly one request, which is reading it; a
\* request that is not reading (answered, failed, cancelled) holds none,
\* and no descriptor stays open without a request that owns it.
C8_HandlesOwnedAndReleased ==
    /\ \A r \in Reqs :
          IF rq[r].pc = "reading"
          THEN rq[r].fd \in Fds /\ handles[rq[r].fd].open
          ELSE rq[r].fd = 0
    /\ \A r1, r2 \in Reqs : (r1 # r2 /\ rq[r1].fd # 0) => rq[r1].fd # rq[r2].fd
    /\ \A fd \in Fds : handles[fd].open => \E r \in Reqs : rq[r].fd = fd

C8_Witness ==
    \E r1, r2 \in Reqs :
        /\ rq[r1].pc = "cancelled" /\ rq[r1].buf # <<>>
        /\ rq[r2].pc = "failed" /\ rq[r2].readErr # "none"
        /\ \A fd \in Fds : ~handles[fd].open

\* C9: two requests with the same path get the same answer from serve (the
\* same response, or the same failure), however their steps interleave;
\* with the extensions off their final responses are the same too.
C9_SameRequestSameResponse ==
    \A r1, r2 \in Reqs :
        (Answered(rq[r1]) /\ Answered(rq[r2]) /\ rq[r1].req = rq[r2].req) =>
            /\ rq[r1].resp = rq[r2].resp
            /\ rq[r1].readErr = rq[r2].readErr
            /\ (~use_extensions /\ rq[r1].pc = "done" /\ rq[r2].pc = "done")
                   => rq[r1].final = rq[r2].final

C9_Witness ==
    \E r1, r2 \in Reqs :
        /\ r1 # r2 /\ rq[r1].req = <<"/">> /\ rq[r2].req = <<"/">>
        /\ rq[r1].pc = "done" /\ rq[r2].pc = "done"
        /\ rq[r1].final.status = 200 /\ rq[r1].final.body = <<"h", "i">>
        /\ rq[r2].final = rq[r1].final

\* the table of the MIME mapper, extension by extension
MimeTable ==
    { << <<"h", "t", "m", "l">>, TEXT_HTML >>,
      << <<"c", "s", "s">>, TEXT_CSS >>,
      << <<"j", "s">>, TEXT_JAVASCRIPT >>,
      << <<"j", "p", "g">>, IMAGE_JPEG >>,
      << <<"m", "d">>, TEXT_MARKDOWN_UTF8 >>,
      << <<"p", "n", "g">>, IMAGE_PNG >>,
      << <<"s", "v", "g">>, IMAGE_SVG >>,
      << <<"w", "a", "s", "m">>, APPLICATION_WASM >> }

MimeOf(ext) ==
    IF \E row \in MimeTable : row[1] = ext
    THEN (CHOOSE row \in MimeTable : row[1] = ext)[2]
    ELSE TEXT_PLAIN

\* C10: every request whose file was read to its end gets a 200 response,
\* and every 200 response carries the table's Content-Type for the
\* extension of the resolved path, matched case-sensitively, text/plain
\* for any other extension or none.
C10_ContentTypeFromTable ==
    \A r \in Reqs :
        /\ (Answered(rq[r]) /\ rq[r].path # None /\ rq[r].openErr = "none"
              /\ rq[r].readErr = "none") => rq[r].resp.status = OK
        /\ rq[r].resp.status = OK =>
              rq[r].resp.content_type = MimeOf(extension(rq[r].path))

C10_Witness ==
    \E r \in Reqs :
        /\ rq[r].pc = "done" /\ rq[r].resp.status = OK
        /\ extension(rq[r].path) = <<"H", "T", "M", "L">>
        /\ rq[r].resp.content_type = TEXT_PLAIN

====
